---- MODULE Spec2Model ----
(***************************************************************************)
(* Model of the three tools of src/agent/tools.py:                         *)
(*   get_n_random_words, get_n_random_words_by_difficulty_level and        *)
(*   translate_words.                                                      *)
(* A state is the record of the latest tool call: its arguments, what it   *)
(* read from its environment (the word-list file, the text of the model's  *)
(* answer), its local variables and its outcome (a returned value or a     *)
(* raised exception).                                                      *)
(* The agent graph of src/main.py (build_graph) is modelled beside them:   *)
(* the node that runs next, the nodes that ran and the messages so far.    *)
(***************************************************************************)
EXTENDS Integers, Sequences, FiniteSets, TLC

VARIABLES
    op,                    \* the tool that ran last ("none" before any call)
    language,              \* argument `language` of the sampling tools
    n,                     \* argument `n` of the sampling tools
    difficulty_level,      \* argument `difficulty_level`
    word_list,             \* what open(path) / json.load(f) gave
    random_word_dict,      \* the keys drawn by random.sample, in draw order
    random_words,          \* sampling tools: the list built; translate_words: its argument
    text,                  \* translate_words: the content of the model's response
    parsed,                \* translate_words: the local `parsed`
    ordered_translations,  \* translate_words: the list under "translations" of the result
    returned,              \* TRUE iff the call returned a value
    raised,                \* the exception that left the call, NoException if none
    prev,                  \* what the caller saw of the call before this one
    node,                  \* agent graph: the node that runs next
    ran,                   \* agent graph: the nodes that ran in this run, in order
    messages               \* agent graph: state["messages"]

vars == <<op, language, n, difficulty_level, word_list, random_word_dict,
          random_words, text, parsed, ordered_translations, returned, raised, prev,
          node, ran, messages>>

toolVars == <<op, language, n, difficulty_level, word_list, random_word_dict,
              random_words, text, parsed, ordered_translations, returned, raised>>
graphVars == <<node, ran, messages>>

-----------------------------------------------------------------------------
(* Bounds of the model.                                                    *)

MaxEntries == 2     \* records in a word-list file
MaxWords == 2       \* words handed to translate_words
MaxItems == 2       \* elements of the "translations" array of a response
MaxSupersteps == 5  \* node executions of one run of the agent graph
MaxToolCalls == 2   \* tool calls in one message of the assistant

-----------------------------------------------------------------------------
(* Strings are sequences of letters, so that str.capitalize is computed.   *)

Upper(c) == CASE c = "k" -> "K" [] c = "a" -> "A" [] OTHER -> c
Lower(c) == CASE c = "K" -> "k" [] c = "A" -> "a" [] OTHER -> c

ka == <<"k", "a">>
Ka == <<"K", "a">>
KA == <<"K", "A">>
Empty == <<>>
tx == <<"x">>
ty == <<"y">>
tz == <<"z">>

\* A plausible slip: upper-case the first letter and leave the rest alone.
capitalizeFirstOnly(w) ==
    IF Len(w) = 0 THEN w ELSE <<Upper(w[1])>> \o SubSeq(w, 2, Len(w))

\* str.capitalize(): first character upper-cased, all the others lower-cased.
capitalize(w) ==
    IF Len(w) = 0 THEN w
    ELSE <<Upper(w[1])>> \o [i \in 1..(Len(w) - 1) |-> Lower(w[i + 1])]

-----------------------------------------------------------------------------
(* Exceptions.                                                             *)

Exc(type, arg) == [type |-> type, arg |-> arg]
NoException == Exc("none", "")
FileNotFoundError == Exc("FileNotFoundError", "No such file or directory")
KeyError(field) == Exc("KeyError", field)
SampleValueError == Exc("ValueError", "Sample larger than population or is negative")
ParseValueError == Exc("ValueError", "Could not parse JSON from translation response.")
JSONDecodeError == Exc("JSONDecodeError", "Expecting value")
AttributeError == Exc("AttributeError", "object has no attribute 'get'")
TypeError == Exc("TypeError", "object is not iterable")

-----------------------------------------------------------------------------
(* The word-list files: data/<language>/word-list-cleaned.json.            *)
(* A file is a JSON object from keys to records; a record is a function    *)
(* from some of the field names "word", "word_difficulty" to values.       *)

Languages == {"German", "Klingon"}
Tiers == {"beginner", "intermediate", "advanced"}
RequestedTiers == Tiers \cup {"expert"}
Keys == 1..MaxEntries
FileWords == {ka, Ka}
FileTiers == {"beginner", "advanced"}

Records ==
    {[word |-> w, word_difficulty |-> d] : w \in FileWords, d \in FileTiers}
    \cup {[word |-> w] : w \in FileWords}
    \cup {[word_difficulty |-> d] : d \in FileTiers}

WordLists == UNION {[D -> Records] : D \in SUBSET Keys}

NoFile == [exists |-> FALSE, entries |-> <<>>]
File(wl) == [exists |-> TRUE, entries |-> wl]

\* open(path, "r") and json.load(f): the file of the language, if there is one.
\* Only German has a data directory here.
Open(lang, wl) == IF lang = "German" THEN File(wl) ELSE NoFile

\* All sequences of k pairwise different elements of S.
Arrangements(S, k) ==
    {s \in [1..k -> S] : \A i, j \in 1..k : i # j => s[i] # s[j]}

\* A plausible slip: drawing with replacement (random.choices).
SampleWithReplacement(population, k) ==
    IF k < 0 \/ k > Cardinality(population) THEN {} ELSE [1..k -> population]

\* A plausible slip: a count beyond the population is capped, not refused.
SampleCapped(population, k) ==
    IF k < 0 THEN {}
    ELSE IF k > Cardinality(population)
         THEN Arrangements(population, Cardinality(population))
         ELSE Arrangements(population, k)

\* A plausible slip: an empty population is refused whatever the count (the
\* docstring's "or if no words match the difficulty level").
SampleNonEmptyOnly(population, k) ==
    IF k < 0 \/ k > Cardinality(population) \/ population = {}
    THEN {} ELSE Arrangements(population, k)

\* random.sample(population, k): the set of its possible results; empty when it
\* raises ValueError (k negative or larger than the population).
Sample(population, k) ==
    IF k < 0 \/ k > Cardinality(population) THEN {} ELSE Arrangements(population, k)

\* A plausible slip: the filter keeps every entry that has a difficulty.
FilterAnyDifficulty(entries, level) == DOMAIN entries

\* {k: v for k, v in word_list.items() if v["word_difficulty"] == difficulty_level}
\* (its keys), once every record is known to have the field.
FilterByDifficulty(entries, level) ==
    {k \in DOMAIN entries : entries[k]["word_difficulty"] = level}

\* [item["word"] for item in random_word_dict.values()]
WordsOf(entries, keys) == [i \in 1..Len(keys) |-> entries[keys[i]]["word"]]

MissingWord(entries, keys) ==
    \E i \in 1..Len(keys) : "word" \notin DOMAIN entries[keys[i]]

-----------------------------------------------------------------------------
(* JSON text and JSON values.                                              *)
(* A text is a sequence of tokens.  "item" stands for the text of one      *)
(* object whose members are among "source" and "target" with string        *)
(* values: it begins with an opening and ends with a closing brace.        *)
(* "key" stands for a member name with its colon, "prose" for a word that  *)
(* is no JSON.                                                             *)

lb == [t |-> "{"]
rb == [t |-> "}"]
ls == [t |-> "["]
rs == [t |-> "]"]
comma == [t |-> ","]
num == [t |-> "num"]
prose == [t |-> "prose"]
str(s) == [t |-> "str", s |-> s]
key(name) == [t |-> "key", name |-> name]
item(members) == [t |-> "item", members |-> members]

NoValue == [kind |-> "none"]
Num == [kind |-> "num"]                       \* a number, true, false or null
Str(s) == [kind |-> "str", s |-> s]
List(elems) == [kind |-> "list", elems |-> elems]
Dict(map) == [kind |-> "dict", map |-> map]

Fail == [ok |-> FALSE]
Ok(v, next) == [ok |-> TRUE, val |-> v, next |-> next]

\* d[k] = v in a dict: a repeated member name keeps the last value.
Put(map, k, v) == [x \in DOMAIN map \cup {k} |-> IF x = k THEN v ELSE map[x]]

\* d.get(k, default)
Get(map, k, default) == IF k \in DOMAIN map THEN map[k] ELSE default

IsTok(ts, i, t) == i <= Len(ts) /\ ts[i].t = t

RECURSIVE ParseValue(_, _)
RECURSIVE ParseElements(_, _, _)
RECURSIVE ParseMembers(_, _, _)

\* The JSON decoder at position i of ts: the value read and the position after it.
ParseValue(ts, i) ==
    IF i > Len(ts) THEN Fail
    ELSE LET tok == ts[i] IN
         CASE tok.t = "num" -> Ok(Num, i + 1)
           [] tok.t = "str" -> Ok(Str(tok.s), i + 1)
           [] tok.t = "item" ->
                Ok(Dict([k \in DOMAIN tok.members |-> Str(tok.members[k])]), i + 1)
           [] tok.t = "[" ->
                IF IsTok(ts, i + 1, "]") THEN Ok(List(<<>>), i + 2)
                ELSE ParseElements(ts, i + 1, <<>>)
           [] tok.t = "{" ->
                IF IsTok(ts, i + 1, "}") THEN Ok(Dict(<<>>), i + 2)
                ELSE ParseMembers(ts, i + 1, <<>>)
           [] OTHER -> Fail

ParseElements(ts, i, acc) ==
    LET r == ParseValue(ts, i) IN
    IF ~r.ok THEN Fail
    ELSE IF IsTok(ts, r.next, ",") THEN ParseElements(ts, r.next + 1, Append(acc, r.val))
    ELSE IF IsTok(ts, r.next, "]") THEN Ok(List(Append(acc, r.val)), r.next + 1)
    ELSE Fail

ParseMembers(ts, i, acc) ==
    IF ~IsTok(ts, i, "key") THEN Fail
    ELSE LET r == ParseValue(ts, i + 1) IN
         IF ~r.ok THEN Fail
         ELSE IF IsTok(ts, r.next, ",")
              THEN ParseMembers(ts, r.next + 1, Put(acc, ts[i].name, r.val))
         ELSE IF IsTok(ts, r.next, "}")
              THEN Ok(Dict(Put(acc, ts[i].name, r.val)), r.next + 1)
         ELSE Fail

\* json.loads(text): one value and nothing after it, else JSONDecodeError.
json_loads(ts) ==
    LET r == ParseValue(ts, 1) IN
    IF r.ok /\ r.next = Len(ts) + 1 THEN Ok(r.val, r.next) ELSE Fail

Opens(tok) == tok.t \in {"{", "item"}
Closes(tok) == tok.t \in {"}", "item"}

NoMatch == [found |-> FALSE, group |-> <<>>]

\* re.search(r"\{.*\}", text, re.DOTALL): from the first opening brace that has
\* a closing brace after it to the last closing brace of the text.
re_search(ts) ==
    LET opens == {i \in 1..Len(ts) : Opens(ts[i])} IN
    IF opens = {} THEN NoMatch
    ELSE LET first == CHOOSE i \in opens : \A j \in opens : i <= j
             closes == {j \in first..Len(ts) :
                          Closes(ts[j]) /\ (j > first \/ ts[first].t = "item")}
         IN IF closes = {} THEN NoMatch
            ELSE LET last == CHOOSE j \in closes : \A x \in closes : j >= x
                 IN [found |-> TRUE, group |-> SubSeq(ts, first, last)]

\* Lines 139-147: strict parse, else the parse of the fragment the pattern finds.
\* exc is what leaves the block, NoException when `parsed` is bound.
ParseResponse(ts) ==
    LET strict == json_loads(ts)
        match == re_search(ts)
        second == IF match.found THEN json_loads(match.group) ELSE Fail
    IN IF strict.ok THEN [exc |-> NoException, val |-> strict.val]
       ELSE IF ~match.found THEN [exc |-> ParseValueError, val |-> NoValue]
       ELSE IF ~second.ok THEN [exc |-> JSONDecodeError, val |-> NoValue]
       ELSE [exc |-> NoException, val |-> second.val]

\* The dicts that `for item in translations_list ... if isinstance(item, dict)`
\* keeps: iterating a list gives its elements, iterating a str or a dict gives
\* strings only.
DictItems(v) ==
    IF v.kind = "list" THEN SelectSeq(v.elems, LAMBDA e : e.kind = "dict") ELSE <<>>

RECURSIVE BuildMap(_, _, _)
BuildMap(items, i, acc) ==
    IF i > Len(items) THEN acc
    ELSE BuildMap(items, i + 1,
                  Put(acc, Get(items[i].map, "source", Str(Empty)),
                           Get(items[i].map, "target", Str(Empty))))

\* Line 151: model_map, from the source of each dict item to its target.
ModelMap(translations_list) == BuildMap(DictItems(translations_list), 1, <<>>)

\* model_map.get(w, model_map.get(w.capitalize(), w))
Target(model_map, w) ==
    Get(model_map, Str(w), Get(model_map, Str(capitalize(w)), Str(w)))

\* A plausible slip: one pair per entry of the lookup that is an input word.
OrderedTranslationsOfMap(ws, model_map) ==
    SelectSeq([i \in 1..Len(ws) |-> [source |-> ws[i], target |-> Target(model_map, ws[i])]],
              LAMBDA pair : Str(pair.source) \in DOMAIN model_map)

\* Lines 154-156: one pair per input word, in input order.
OrderedTranslations(ws, model_map) ==
    [i \in 1..Len(ws) |-> [source |-> ws[i], target |-> Target(model_map, ws[i])]]

-----------------------------------------------------------------------------
(* The inputs the calls are tried on.                                      *)

Counts == (0 - 1)..(MaxEntries + 1)

InputWords == {ka, KA, Empty}
WordSeqs == UNION {[1..k -> InputWords] : k \in 0..MaxWords}

translationsKey == key("translations")

Elements ==
    { item([source |-> ka, target |-> tx]),
      item([source |-> ka, target |-> ty]),
      item([source |-> Ka, target |-> tz]),
      item([target |-> tx]),
      num }

RECURSIVE Joined(_, _)
\* The elements of an array with the commas between them.
Joined(es, i) ==
    IF i > Len(es) THEN <<>>
    ELSE IF i = Len(es) THEN <<es[i]>>
    ELSE <<es[i], comma>> \o Joined(es, i + 1)

\* The text of {"translations": [e1, ..., ek]}.
Payload(es) == <<lb, translationsKey, ls>> \o Joined(es, 1) \o <<rs, rb>>

Payloads == {Payload(es) : es \in UNION {[1..k -> Elements] : k \in 0..MaxItems}}

OtherBodies ==
    { <<>>,                                        \* an empty answer
      <<prose>>,                                   \* no JSON at all
      <<num>>,                                     \* JSON, not an object
      <<ls, rs>>,
      <<ls, item([source |-> ka, target |-> tx]), rs>>,
      <<ls, num, comma, rs>>,                      \* not JSON
      <<lb, rb>>,                                  \* an object with no "translations"
      <<item([source |-> ka, target |-> tx])>>,
      <<lb, translationsKey, num, rb>>,            \* "translations" is no sequence
      <<lb, translationsKey, str(ka), rb>>,
      <<lb, translationsKey, item([source |-> ka, target |-> tx]), rb>>,
      <<lb, key("note"), num, comma, translationsKey, ls,
        item([source |-> Ka, target |-> tz]), rs, rb>> }

Prefixes == {<<>>, <<prose>>, <<prose, lb, prose>>}
Suffixes == {<<>>, <<prose>>, <<prose, rb, prose>>}

Texts == {pre \o body \o suf :
            pre \in Prefixes, body \in Payloads \cup OtherBodies, suf \in Suffixes}

-----------------------------------------------------------------------------
(* The state machine.                                                      *)

NoCall == [cond |-> {}, raised |-> NoException]

\* The nodes of the graph: START and END of langgraph.graph and the two nodes
\* build_graph adds.
START == "__start__"
END == "__end__"

\* messages = [HumanMessage(content=user_prompt)]
HumanMessage == [type |-> "human", tool_calls |-> <<>>, name |-> ""]
\* The assistant's message: an AIMessage with the tool calls the model asks for.
AIMessage(calls) == [type |-> "ai", tool_calls |-> calls, name |-> ""]
\* The message ToolNode adds for one tool call.
ToolMessage(tool) == [type |-> "tool", tool_calls |-> <<>>, name |-> tool]

Init ==
    /\ op = "none"
    /\ language = ""
    /\ n = 0
    /\ difficulty_level = ""
    /\ word_list = NoFile
    /\ random_word_dict = <<>>
    /\ random_words = <<>>
    /\ text = <<>>
    /\ parsed = NoValue
    /\ ordered_translations = <<>>
    /\ returned = FALSE
    /\ raised = NoException
    /\ prev = NoCall
    /\ node = START
    /\ ran = <<>>
    /\ messages = <<HumanMessage>>

Raise(exc) ==
    /\ raised' = exc
    /\ returned' = FALSE

\* Lines 49-52 and 99-102: the draw, the words of the drawn records, the return.
SampleAndReturn(entries, population, k) ==
    LET draws == Sample(population, k) IN
    IF draws = {}
    THEN /\ Raise(SampleValueError)
         /\ random_word_dict' = <<>>
         /\ random_words' = <<>>
    ELSE \E drawn \in draws :
            /\ random_word_dict' = drawn
            /\ IF MissingWord(entries, drawn)
               THEN /\ Raise(KeyError("word"))
                    /\ random_words' = <<>>
               ELSE /\ random_words' = WordsOf(entries, drawn)
                    /\ returned' = TRUE
                    /\ raised' = NoException

get_n_random_words(lang, k, wl) ==
    LET f == Open(lang, wl) IN
    /\ op' = "get_n_random_words"
    /\ language' = lang
    /\ n' = k
    /\ difficulty_level' = ""
    /\ word_list' = f
    /\ text' = <<>>
    /\ parsed' = NoValue
    /\ ordered_translations' = <<>>
    /\ IF ~f.exists
       THEN /\ Raise(FileNotFoundError)
            /\ random_word_dict' = <<>>
            /\ random_words' = <<>>
       ELSE SampleAndReturn(f.entries, DOMAIN f.entries, k)

get_n_random_words_by_difficulty_level(lang, level, k, wl) ==
    LET f == Open(lang, wl) IN
    /\ op' = "get_n_random_words_by_difficulty_level"
    /\ language' = lang
    /\ n' = k
    /\ difficulty_level' = level
    /\ word_list' = f
    /\ text' = <<>>
    /\ parsed' = NoValue
    /\ ordered_translations' = <<>>
    /\ IF ~f.exists
       THEN /\ Raise(FileNotFoundError)
            /\ random_word_dict' = <<>>
            /\ random_words' = <<>>
       ELSE IF \E x \in DOMAIN f.entries : "word_difficulty" \notin DOMAIN f.entries[x]
       THEN /\ Raise(KeyError("word_difficulty"))
            /\ random_word_dict' = <<>>
            /\ random_words' = <<>>
       ELSE SampleAndReturn(f.entries, FilterByDifficulty(f.entries, level), k)

translate_words(ws, response) ==
    LET p == ParseResponse(response)
        translations_list ==
            IF p.val.kind = "dict" THEN Get(p.val.map, "translations", List(<<>>))
            ELSE NoValue
    IN
    /\ op' = "translate_words"
    /\ language' = ""
    /\ n' = 0
    /\ difficulty_level' = ""
    /\ word_list' = NoFile
    /\ random_word_dict' = <<>>
    /\ random_words' = ws
    /\ text' = response
    /\ parsed' = p.val
    /\ IF p.exc # NoException
       THEN Raise(p.exc) /\ ordered_translations' = <<>>
       ELSE IF p.val.kind # "dict"
       THEN Raise(AttributeError) /\ ordered_translations' = <<>>
       ELSE IF translations_list.kind = "num"
       THEN Raise(TypeError) /\ ordered_translations' = <<>>
       ELSE /\ ordered_translations' = OrderedTranslations(ws, ModelMap(translations_list))
            /\ returned' = TRUE
            /\ raised' = NoException

GetNRandomWords ==
    /\ op = "none"
    /\ \E lang \in Languages, k \in Counts, wl \in WordLists :
          get_n_random_words(lang, k, wl)

GetNRandomWordsByDifficultyLevel ==
    /\ op = "none"
    /\ \E lang \in Languages, level \in RequestedTiers, k \in Counts, wl \in WordLists :
          get_n_random_words_by_difficulty_level(lang, level, k, wl)

TranslateWords ==
    /\ op = "none"
    /\ \E ws \in WordSeqs, response \in Texts : translate_words(ws, response)

\* The caller takes the outcome of the call; the next call starts afresh.
Return ==
    /\ op # "none"
    /\ op' = "none"
    /\ language' = ""
    /\ n' = 0
    /\ difficulty_level' = ""
    /\ word_list' = NoFile
    /\ random_word_dict' = <<>>
    /\ random_words' = <<>>
    /\ text' = <<>>
    /\ parsed' = NoValue
    /\ ordered_translations' = <<>>
    /\ returned' = FALSE
    /\ raised' = NoException

Next ==
    \/ GetNRandomWords /\ UNCHANGED <<prev, graphVars>>
    \/ GetNRandomWordsByDifficultyLevel /\ UNCHANGED <<prev, graphVars>>
    \/ TranslateWords /\ UNCHANGED <<prev, graphVars>>
    \/ Return /\ UNCHANGED <<prev, graphVars>>

Spec == Init /\ [][Next]_vars

-----------------------------------------------------------------------------
(* Vocabulary of the properties.                                           *)

Sampling == op \in {"get_n_random_words", "get_n_random_words_by_difficulty_level"}
ByDifficulty == op = "get_n_random_words_by_difficulty_level"
Translating == op = "translate_words"

HasFields(record) == {"word", "word_difficulty"} \subseteq DOMAIN record
WellFormed(entries) == \A k \in DOMAIN entries : HasFields(entries[k])

\* The entries a request may draw from: all of them, or those of the tier.
Eligible ==
    IF ByDifficulty
    THEN {k \in DOMAIN word_list.entries :
            /\ "word_difficulty" \in DOMAIN word_list.entries[k]
            /\ word_list.entries[k]["word_difficulty"] = difficulty_level}
    ELSE DOMAIN word_list.entries

PairwiseDistinct(seq) == \A i, j \in 1..Len(seq) : i # j => seq[i] # seq[j]

\* The error kinds of the specification, as the exceptions of the code.
IsInsufficientData(exc) == exc.type = "ValueError"
IsInvalidArgument(exc) == exc.type = "ValueError"
IsMalformedResource(exc) == exc.type = "KeyError"
IsUnparsableResponse(exc) == exc.type \in {"ValueError", "JSONDecodeError"}


\* The response as the specification reads it: the value that strict parsing, or
\* else the one recovery attempt, yields.
Uncoercible ==
    LET p == ParseResponse(text) IN
    \/ p.exc # NoException
    \/ p.val.kind # "dict"
    \/ /\ p.val.kind = "dict"
       /\ "translations" \in DOMAIN p.val.map
       /\ p.val.map["translations"].kind # "list"

\* The error conditions of the specification's taxonomy that the call was made
\* under, from its inputs alone.
ErrorConditions ==
    IF Sampling
    THEN IF ~word_list.exists THEN {"ResourceNotFound"}
         ELSE {c \in {"MalformedResource"} : ~WellFormed(word_list.entries)}
              \cup {c \in {"InvalidArgument"} :
                      n < 0 \/ (ByDifficulty /\ difficulty_level \notin Tiers)}
              \cup {c \in {"InsufficientData"} : n > Cardinality(Eligible)}
    ELSE IF Translating
    THEN {c \in {"UnparsableResponse"} : Uncoercible}
    ELSE {}

\* What the caller keeps of a call: the error conditions it was made under and
\* the exception it saw.
NextErr ==
    \/ GetNRandomWords /\ UNCHANGED <<prev, graphVars>>
    \/ GetNRandomWordsByDifficultyLevel /\ UNCHANGED <<prev, graphVars>>
    \/ TranslateWords /\ UNCHANGED <<prev, graphVars>>
    \/ Return /\ prev' = [cond |-> ErrorConditions, raised |-> raised]
              /\ UNCHANGED graphVars

SpecErr == Init /\ [][NextErr]_vars

-----------------------------------------------------------------------------
(* translate_words: the shape of the result.                               *)

\* C1: whenever translate_words returns, its list has one pair per input word
\* and the source of pair i is input word i, whatever the response held.
C1_SameLengthAndOrder ==
    (Translating /\ returned) =>
        /\ Len(ordered_translations) = Len(random_words)
        /\ \A i \in 1..Len(random_words) :
              ordered_translations[i].source = random_words[i]

\* The dict entries of the parsed response, in the order of the response.
ResponseEntries == DictItems(Get(parsed.map, "translations", List(<<>>)))

\* A response that names one source twice and leaves an input word out, given
\* two different input words.
C1_Witness ==
    /\ Translating /\ returned
    /\ random_words = <<Empty, ka>>
    /\ Len(ResponseEntries) = 2
    /\ \A i \in 1..2 : Get(ResponseEntries[i].map, "source", Str(Empty)) = Str(ka)

-----------------------------------------------------------------------------
(* translate_words: the target of each pair.                               *)

Letters == {"k", "K", "a", "A", "x", "y", "z"}

\* The capitalized form of w: the word of the same length whose first letter is
\* that of w in upper case and whose other letters are those of w in lower case.
CapitalizedForm(w) ==
    CHOOSE c \in [1..Len(w) -> Letters] :
        \A i \in 1..Len(w) : c[i] = IF i = 1 THEN Upper(w[i]) ELSE Lower(w[i])

\* The source / target an entry of the response is recorded under (an entry
\* without the member is recorded under the empty string).
SourceOf(e) == Get(e.map, "source", Str(Empty))
TargetOf(e) == Get(e.map, "target", Str(Empty))

ResponseHasSource(w) ==
    \E i \in 1..Len(ResponseEntries) : SourceOf(ResponseEntries[i]) = Str(w)

\* The translation recorded for w: that of the last entry with source w.
Recorded(w) ==
    LET at == {i \in 1..Len(ResponseEntries) : SourceOf(ResponseEntries[i]) = Str(w)}
        last == CHOOSE i \in at : \A j \in at : j <= i
    IN TargetOf(ResponseEntries[last])

\* C2: the target of each pair is the translation recorded for the word itself
\* if the response has that source, else the one recorded for its capitalized
\* form if the response has that source, else the word itself.
C2_ThreeStepFallback ==
    (Translating /\ returned) =>
        \A i \in 1..Len(random_words) :
            LET w == random_words[i] IN
            /\ i <= Len(ordered_translations)
            /\ ordered_translations[i].target =
                  IF ResponseHasSource(w) THEN Recorded(w)
                  ELSE IF ResponseHasSource(CapitalizedForm(w))
                       THEN Recorded(CapitalizedForm(w))
                  ELSE Str(w)

\* A call in which "ka" is found as it is and "KA" only in its capitalized form
\* "Ka", which the response has and "KA" it has not.
C2_Witness ==
    /\ Translating /\ returned
    /\ random_words = <<ka, KA>>
    /\ ResponseHasSource(ka) /\ ResponseHasSource(Ka) /\ ~ResponseHasSource(KA)
    /\ ordered_translations[1].target = Str(tx)
    /\ ordered_translations[2].target = Str(tz)

-----------------------------------------------------------------------------
(* The sampling tools.                                                     *)

\* C3 as stated: with a count above the number of eligible entries of an
\* existing word list, the call fails with InsufficientData and returns no list.
C3_AlwaysInsufficientData ==
    (Sampling /\ word_list.exists /\ n > Cardinality(Eligible)) =>
        (~returned /\ IsInsufficientData(raised))

\* C3 as amended: with a count above the number of eligible entries of an
\* existing word list the call returns no list; it fails with the ValueError of
\* random.sample, except that the tool that filters by difficulty fails with
\* KeyError "word_difficulty" when a record of the list lacks that field.
C3_InsufficientDataUnlessMalformed ==
    (Sampling /\ word_list.exists /\ n > Cardinality(Eligible)) =>
        /\ ~returned
        /\ raised =
              IF ByDifficulty /\ \E k \in DOMAIN word_list.entries :
                                    "word_difficulty" \notin DOMAIN word_list.entries[k]
              THEN KeyError("word_difficulty")
              ELSE SampleValueError

\* A count that the whole list could satisfy and the tier cannot.
C3_Witness ==
    /\ ByDifficulty /\ word_list.exists /\ WellFormed(word_list.entries)
    /\ difficulty_level \in Tiers
    /\ n > Cardinality(Eligible)
    /\ n <= Cardinality(DOMAIN word_list.entries)
    /\ Cardinality(Eligible) > 0
    /\ raised = SampleValueError

WordOf(k) == word_list.entries[k]["word"]

\* C4 as stated: on a well-formed list and a count from 0 to the number of its
\* entries, get_n_random_words returns exactly n pairwise distinct words, each
\* the word of an entry of the list.
C4_DistinctWords ==
    (/\ op = "get_n_random_words" /\ word_list.exists
     /\ WellFormed(word_list.entries)
     /\ 0 <= n /\ n <= Cardinality(DOMAIN word_list.entries)) =>
        /\ returned
        /\ Len(random_words) = n
        /\ PairwiseDistinct(random_words)
        /\ \A i \in 1..Len(random_words) :
              \E k \in DOMAIN word_list.entries : random_words[i] = WordOf(k)

\* C4 as amended: the n words returned are those of n pairwise distinct entries
\* of the list, in draw order; they are pairwise distinct words when no two
\* entries of the list hold the same word.
C4_DistinctEntries ==
    (/\ op = "get_n_random_words" /\ word_list.exists
     /\ WellFormed(word_list.entries)
     /\ 0 <= n /\ n <= Cardinality(DOMAIN word_list.entries)) =>
        /\ returned
        /\ Len(random_words) = n
        /\ Len(random_word_dict) = n
        /\ PairwiseDistinct(random_word_dict)
        /\ \A i \in 1..n :
              /\ random_word_dict[i] \in DOMAIN word_list.entries
              /\ random_words[i] = WordOf(random_word_dict[i])
        /\ (\A j, k \in DOMAIN word_list.entries : j # k => WordOf(j) # WordOf(k))
              => PairwiseDistinct(random_words)

\* Two words drawn from a list of two entries with different words.
C4_Witness ==
    /\ op = "get_n_random_words" /\ returned
    /\ WellFormed(word_list.entries)
    /\ n = 2
    /\ random_words[1] # random_words[2]

\* C5: on a well-formed list, a valid tier and a count the tier can satisfy,
\* every word returned is the word of a drawn entry whose word_difficulty is
\* the requested tier.
C5_OnlyRequestedTier ==
    (/\ ByDifficulty /\ word_list.exists /\ WellFormed(word_list.entries)
     /\ difficulty_level \in Tiers
     /\ 0 <= n /\ n <= Cardinality(Eligible)) =>
        /\ returned
        /\ Len(random_word_dict) = Len(random_words)
        /\ \A i \in 1..Len(random_words) :
              /\ random_word_dict[i] \in DOMAIN word_list.entries
              /\ random_words[i] = WordOf(random_word_dict[i])
              /\ word_list.entries[random_word_dict[i]]["word_difficulty"]
                    = difficulty_level

\* A word drawn from a list that also holds an entry of another tier.
C5_Witness ==
    /\ ByDifficulty /\ returned /\ WellFormed(word_list.entries)
    /\ n >= 1
    /\ \E k \in DOMAIN word_list.entries :
          word_list.entries[k]["word_difficulty"] # difficulty_level


\* C6: on an existing well-formed list, a difficulty tier outside beginner,
\* intermediate, advanced fails with InvalidArgument for every count, 0
\* included, and returns nothing.
C6_InvalidTierFails ==
    (/\ ByDifficulty /\ word_list.exists /\ WellFormed(word_list.entries)
     /\ difficulty_level \notin Tiers) =>
        (~returned /\ IsInvalidArgument(raised))

\* C9: if a record of the list lacks "word" or "word_difficulty", the sampling
\* tools fail with MalformedResource, for every count (here: every count from 1
\* to the number of entries of the list) and every draw.
C9_MalformedAlwaysFails ==
    (/\ Sampling /\ word_list.exists /\ ~WellFormed(word_list.entries)
     /\ 1 <= n /\ n <= Cardinality(DOMAIN word_list.entries)) =>
        (~returned /\ IsMalformedResource(raised))

-----------------------------------------------------------------------------
(* translate_words: reading the response.                                  *)

\* C7: a response that strict parsing and the one recovery attempt cannot turn
\* into an object with a "translations" sequence makes translate_words fail
\* with UnparsableResponse; no result is returned.
C7_UnparsableFails ==
    (Translating /\ Uncoercible) =>
        (~returned /\ IsUnparsableResponse(raised))

\* Explanatory text: words and stray braces, holding no JSON object.
IsProse(ts) ==
    /\ \A i \in 1..Len(ts) : ts[i].t \in {"prose", "{", "}"}
    /\ \A i \in 1..(Len(ts) - 1) : ~(ts[i].t = "{" /\ ts[i + 1].t = "}")

\* The text of one object of the expected shape: {"translations": [...]}.
ExpectedShape(ts) ==
    LET r == json_loads(ts) IN
    /\ r.ok
    /\ r.val.kind = "dict"
    /\ DOMAIN r.val.map = {"translations"}
    /\ r.val.map["translations"].kind = "list"

\* The places where the text is prose, one object of the expected shape, prose.
Embedded ==
    {ij \in (1..Len(text)) \X (1..Len(text)) :
        /\ ij[1] <= ij[2]
        /\ ij[1] > 1 \/ ij[2] < Len(text)
        /\ IsProse(SubSeq(text, 1, ij[1] - 1))
        /\ IsProse(SubSeq(text, ij[2] + 1, Len(text)))
        /\ ExpectedShape(SubSeq(text, ij[1], ij[2]))}

\* C8: when the response is prose around one embedded object of the expected
\* shape, translate_words returns what it returns for that object alone,
\* whatever the prose holds.
C8_EmbeddedObjectRecovered ==
    Translating =>
        \A ij \in Embedded :
            LET object == json_loads(SubSeq(text, ij[1], ij[2])).val IN
            /\ returned
            /\ parsed = object
            /\ ordered_translations =
                  OrderedTranslations(random_words,
                                      ModelMap(object.map["translations"]))

-----------------------------------------------------------------------------
(* The errors the caller sees.                                             *)

\* C10: two calls made under different error conditions of the taxonomy never
\* fail with the same exception (type and message).
C10_ErrorKindsDistinguishable ==
    (/\ Cardinality(prev.cond) = 1 /\ Cardinality(ErrorConditions) = 1
     /\ prev.cond # ErrorConditions
     /\ prev.raised # NoException /\ raised # NoException) =>
        prev.raised # raised


-----------------------------------------------------------------------------
(* The sampling tools: a count of zero.                                    *)

-----------------------------------------------------------------------------
(* The agent graph: build_graph of src/main.py.                            *)

\* local_tools: the tools the model may ask for.
ToolNames ==
    {"get_n_random_words", "get_n_random_words_by_difficulty_level", "translate_words"}

\* The tool calls one message of the assistant may hold.
ToolCallSeqs == UNION {[1..k -> ToolNames] : k \in 0..MaxToolCalls}

LastMessage(msgs) == msgs[Len(msgs)]

\* A plausible slip: routing on whether any message so far asked for a tool.
tools_conditionAnyMessage(msgs) ==
    IF \E i \in 1..Len(msgs) : Len(msgs[i].tool_calls) > 0 THEN "tools" ELSE END

\* tools_condition of langgraph.prebuilt: "tools" if the last message has tool
\* calls, END otherwise.
tools_condition(msgs) ==
    IF Len(LastMessage(msgs).tool_calls) > 0 THEN "tools" ELSE END

\* The edges of the graph: add_edge(START, "assistant"),
\* add_conditional_edges("assistant", tools_condition), add_edge("tools", "assistant").
Edge(from, msgs) ==
    CASE from = START -> "assistant"
      [] from = "assistant" -> tools_condition(msgs)
      [] from = "tools" -> "assistant"

\* The run is entered: ainvoke follows the edge out of START.
Enter ==
    /\ node = START
    /\ node' = Edge(START, messages)
    /\ UNCHANGED <<ran, messages>>

\* The assistant node: the model's answer is added to the messages.
Assistant ==
    /\ node = "assistant"
    /\ Len(ran) < MaxSupersteps
    /\ \E calls \in ToolCallSeqs :
          /\ messages' = Append(messages, AIMessage(calls))
          /\ node' = Edge("assistant", Append(messages, AIMessage(calls)))
    /\ ran' = Append(ran, "assistant")

\* The tools node: ToolNode adds one ToolMessage for each tool call of the last
\* message.
Tools ==
    /\ node = "tools"
    /\ Len(ran) < MaxSupersteps
    /\ LET calls == LastMessage(messages).tool_calls
           results == [i \in 1..Len(calls) |-> ToolMessage(calls[i])]
       IN /\ messages' = messages \o results
          /\ node' = Edge("tools", messages \o results)
    /\ ran' = Append(ran, "tools")

NextGraph ==
    \/ Enter /\ UNCHANGED <<toolVars, prev>>
    \/ Assistant /\ UNCHANGED <<toolVars, prev>>
    \/ Tools /\ UNCHANGED <<toolVars, prev>>

SpecGraph == Init /\ [][NextGraph]_vars

RequestsToolCalls(m) == m.type = "ai" /\ m.tool_calls # <<>>
LastRan == ran[Len(ran)]

\* C12: the first node to run is the assistant; right after an assistant step
\* the next node is tools exactly when the assistant's latest message requests
\* tool calls, and else the run ends; right after a tools step the next node is
\* the assistant.  So a run ends only right after an assistant step whose
\* message requests no tool call, and tools never runs twice in a row.
C12_AssistantToolsLoop ==
    /\ ran = <<>> => node \in {START, "assistant"}
    /\ ran # <<>> =>
          /\ ran[1] = "assistant"
          /\ LastRan = "assistant" =>
                node = IF RequestsToolCalls(LastMessage(messages)) THEN "tools" ELSE END
          /\ LastRan = "tools" => node = "assistant"
    /\ node = END =>
          /\ ran # <<>>
          /\ LastRan = "assistant"
          /\ ~RequestsToolCalls(LastMessage(messages))
    /\ \A i \in 1..(Len(ran) - 1) : ~(ran[i] = "tools" /\ ran[i + 1] = "tools")

\* A run that went through tools twice and then ended.
C12_Witness ==
    /\ node = END
    /\ ran = <<"assistant", "tools", "assistant", "tools", "assistant">>

====
